---- MODULE Spec2Model ----
(***************************************************************************)
(* A model of reaction_time.py: the trial loop, the statistics, the        *)
(* interpretation, and the history file ~/reaction_time_log.csv.           *)
(*                                                                         *)
(* Numbers.  Python's float is a binary floating-point number: every       *)
(* arithmetic result is rounded to the nearest representable value, ties   *)
(* to even.  A float is modelled as an integer count of 2^-FracBits ms     *)
(* that has at most MantissaBits significant bits; fl rounds an exact      *)
(* quotient to such a value.  A cell of the CSV file holding "%.1f" text   *)
(* is modelled as the integer number of tenths it spells.                  *)
(*                                                                         *)
(* Not modelled: console output (the banner, the per-trial feedback, the   *)
(* histogram), and the date and time columns of a record.                  *)
(***************************************************************************)
EXTENDS Integers, Sequences, FiniteSets, TLC

\* ------------------------------------------------------------ bounds
MaxTrials == 2        \* num_trials of a session of Spec ranges over 1..MaxTrials
MaxSessions == 3      \* program runs started in one behaviour of Spec
MaxStatTrials == 3    \* length of the trial sequences SpecStats draws
MaxRows == 3          \* data rows of the history files SpecStore draws
FracBits == 8         \* a float is a multiple of 2^-FracBits ms
MantissaBits == 16    \* significant bits of a float

\* ------------------------------------------------------------ floats
Unit == 2^FracBits

Ms(k) == k * Unit

RECURSIVE Quantum(_)
\* spacing of the floats around magnitude a (a >= 0, in units)
Quantum(a) == IF a < 2^MantissaBits THEN 1 ELSE 2 * Quantum(a \div 2)

\* nearest integer to n/d (n >= 0, d > 0), ties to even
RoundHalfEven(n, d) ==
    LET k == n \div d
        r == n % d
    IN  IF 2 * r < d THEN k
        ELSE IF 2 * r > d THEN k + 1
        ELSE IF k % 2 = 0 THEN k ELSE k + 1

\* the float nearest to the exact quotient n/d (n >= 0, d > 0)
fl(n, d) == LET q == Quantum(n \div d) IN q * RoundHalfEven(n, d * q)

FAdd(a, b) == IF a + b >= 0 THEN fl(a + b, 1) ELSE 0 - fl(0 - (a + b), 1)

FSub(a, b) == FAdd(a, 0 - b)

FDiv(a, n) == fl(a, n)

RECURSIVE sum(_)
\* sum(): a left fold of float additions starting from 0
sum(s) == IF s = <<>> THEN 0 ELSE FAdd(sum(SubSeq(s, 1, Len(s) - 1)), s[Len(s)])

RECURSIVE min(_)
min(s) == IF Len(s) = 1 THEN s[1]
          ELSE LET m == min(Tail(s)) IN IF s[1] <= m THEN s[1] ELSE m

RECURSIVE max(_)
max(s) == IF Len(s) = 1 THEN s[1]
          ELSE LET m == max(Tail(s)) IN IF s[1] >= m THEN s[1] ELSE m

\* f"{x:.1f}": the decimal with one fractional digit nearest to the exact
\* value of the float x, as a number of tenths
Format1(x) == RoundHalfEven(10 * x, Unit)

\* float("d.d"): the float nearest to t tenths
ParseFloat(t) == fl(t * Unit, 10)

\* ------------------------------------------------------------ statistics
calculate_percentile_lenient(rt) ==
    IF rt <= Ms(180) THEN <<99, "Exceptional">>
    ELSE IF rt <= Ms(200) THEN <<95, "Excellent">>
    ELSE IF rt <= Ms(230) THEN <<85, "Above average">>
    ELSE IF rt <= Ms(270) THEN <<50, "Average">>
    ELSE IF rt <= Ms(320) THEN <<25, "Below average">>
    ELSE <<10, "Slow">>

calculate_percentile(rt) ==
    IF rt < Ms(180) THEN <<99, "Exceptional">>
    ELSE IF rt < Ms(200) THEN <<95, "Excellent">>
    ELSE IF rt < Ms(230) THEN <<85, "Above average">>
    ELSE IF rt < Ms(270) THEN <<50, "Average">>
    ELSE IF rt < Ms(320) THEN <<25, "Below average">>
    ELSE <<10, "Slow">>

\* the time-of-day insight
TimeInsight(hour) ==
    IF 6 <= hour /\ hour < 10 THEN <<"morning">>
    ELSE IF 14 <= hour /\ hour < 16 THEN <<"afternoon dip">>
    ELSE IF 22 <= hour \/ hour < 6 THEN <<"late night">>
    ELSE <<>>

\* the variability insight
VariabilityInsight(trial_rts) ==
    LET variability == FSub(max(trial_rts), min(trial_rts))
    IN  IF variability < Ms(30) THEN <<"very consistent">>
        ELSE IF variability < Ms(60) THEN <<"normal variability">>
        ELSE <<"high variability">>

LearningInsight_inclusive(trial_rts) ==
    LET h == Len(trial_rts) \div 2
        first_half == FDiv(sum(SubSeq(trial_rts, 1, h)), h)
        second_half == FDiv(sum(SubSeq(trial_rts, h + 1, Len(trial_rts))),
                            Len(trial_rts) - h)
    IN  IF second_half <= FSub(first_half, Ms(15)) THEN <<"practice effect">>
        ELSE IF second_half >= FAdd(first_half, Ms(15)) THEN <<"fatigue effect">>
        ELSE <<>>

\* the learning insight; only evaluated when the first half is not empty
LearningInsight(trial_rts) ==
    LET h == Len(trial_rts) \div 2
        first_half == FDiv(sum(SubSeq(trial_rts, 1, h)), h)
        second_half == FDiv(sum(SubSeq(trial_rts, h + 1, Len(trial_rts))),
                            Len(trial_rts) - h)
    IN  IF second_half < FSub(first_half, Ms(15)) THEN <<"practice effect">>
        ELSE IF second_half > FAdd(first_half, Ms(15)) THEN <<"fatigue effect">>
        ELSE <<>>

\* get_interpretation: the insight list, or the ZeroDivisionError that the
\* division by len(trial_rts)//2 raises when that is 0.  hour is
\* datetime.now().hour; avg_rt and time_of_day are not used by the code.
get_interpretation(avg_rt, time_of_day, trial_rts, hour) ==
    IF Len(trial_rts) \div 2 = 0
    THEN [raised |-> TRUE, insights |-> <<>>]
    ELSE [raised |-> FALSE,
          insights |-> TimeInsight(hour) \o VariabilityInsight(trial_rts)
                       \o LearningInsight(trial_rts)]

\* ------------------------------------------------------------ history file
Text(word) == [s |-> word, v |-> 0]

Number(tenths) == [s |-> "float", v |-> tenths]

\* writer.writerow(["date", "time", "avg_rt_ms", ...])
HeaderLine ==
    [avg |-> Text("avg_rt_ms"), fastest |-> Text("fastest_ms"),
     slowest |-> Text("slowest_ms"),
     trials |-> [s |-> "all_trials_ms", v |-> <<>>]]

\* the record save_results writes
RecordLine(results, avg_rt) ==
    [avg |-> Number(Format1(avg_rt)),
     fastest |-> Number(Format1(min(results))),
     slowest |-> Number(Format1(max(results))),
     trials |-> [s |-> "floats",
                 v |-> [i \in 1..Len(results) |-> Format1(results[i])]]]

NoFile == [exists |-> FALSE, lines |-> <<>>]

None == [some |-> FALSE, vals |-> <<>>]

Some(s) == [some |-> TRUE, vals |-> s]

\* csv.DictReader: the first line names the columns, the rest are the rows;
\* row["avg_rt_ms"] is the cell under that name
DictRows(lines) == IF lines = <<>> THEN <<>> ELSE Tail(lines)

HasAvgColumn(lines) == lines # <<>> /\ lines[1].avg = Text("avg_rt_ms")

RECURSIVE Averages(_, _)
\* the loop of load_history: float(row["avg_rt_ms"]) appended, any
\* exception (no such column, not a number) swallowed
Averages(rows, hasColumn) ==
    IF rows = <<>> THEN <<>>
    ELSE LET rest == Averages(Tail(rows), hasColumn)
         IN  IF hasColumn /\ rows[1].avg.s = "float"
             THEN <<ParseFloat(rows[1].avg.v)>> \o rest
             ELSE rest

load_history_keep_last(f) ==
    IF ~f.exists THEN None
    ELSE LET all_averages == Averages(DictRows(f.lines), HasAvgColumn(f.lines))
         IN  IF Len(all_averages) > 1
             THEN Some(Tail(all_averages))
             ELSE None

load_history(f) ==
    IF ~f.exists THEN None
    ELSE LET all_averages == Averages(DictRows(f.lines), HasAvgColumn(f.lines))
         IN  IF Len(all_averages) > 1
             THEN Some(SubSeq(all_averages, 1, Len(all_averages) - 1))
             ELSE None

save_results_rewrite(f, results, avg_rt) ==
    [exists |-> TRUE,
     lines |-> <<HeaderLine, RecordLine(results, avg_rt)>>]

save_results_always_header(f, results, avg_rt) ==
    [exists |-> TRUE,
     lines |-> f.lines \o <<HeaderLine, RecordLine(results, avg_rt)>>]

save_results(f, results, avg_rt) ==
    [exists |-> TRUE,
     lines |-> (IF ~f.exists THEN <<HeaderLine>> ELSE f.lines)
               \o <<RecordLine(results, avg_rt)>>]

\* the history comparison printed by reaction_time_test
Comparison(history, avg_rt) ==
    IF ~history.some \/ history.vals = <<>> THEN "none"
    ELSE LET personal_avg == FDiv(sum(history.vals), Len(history.vals))
             diff == FSub(avg_rt, personal_avg)
         IN  IF diff < 0 - Ms(10) THEN "faster"
             ELSE IF diff > Ms(10) THEN "slower"
             ELSE "consistent"

\* ------------------------------------------------------------ inputs
\* reaction times a keypress of Spec can produce: 200 ms and 230.25 ms
Times == {Ms(200), Ms(230) + Unit \div 4}

\* datetime.now().hour, one or two hours of each branch of the time-of-day test
Hours == {3, 8, 12, 15, 23}

\* the float just below x
Pred(x) == x - Quantum(x - 1)

\* reaction times of the trial sequences SpecStats draws: 15, 30 and 60 ms
\* apart, one float off those distances, a time whose threefold sum is a
\* rounding tie, and a pair 15 ms and a little apart for which the float
\* sum first + 15 is rounded up to the second
StatTimes ==
    {Ms(200), Ms(200) + 1, Ms(215), Ms(215) + 1, Ms(230), Ms(260),
     2^(MantissaBits - 1) + 2^(MantissaBits - 3) + 2^(MantissaBits - 4) + 2,
     Ms(250) + 3, Ms(265) + 4}

\* single reaction times at and next to the percentile thresholds
BoundaryTimes ==
    UNION {{ParseFloat(10 * k - 1), Pred(Ms(k)), Ms(k), ParseFloat(10 * k + 1)}
           : k \in {180, 200, 230, 270, 320}}

SeqsOf(S, lo, hi) == UNION {[1..n -> S] : n \in lo..hi}

\* two sessions of the default five trials
FiveTrials ==
    {<<Ms(150), Ms(160), Ms(155), Ms(158), Ms(152)>>,
     <<Ms(300), Ms(310), Ms(295), Ms(305), Ms(500)>>}

StatInputs ==
    SeqsOf(StatTimes, 1, MaxStatTrials) \cup {<<t>> : t \in BoundaryTimes}
        \cup FiveTrials

\* rows found in a history file: records of earlier sessions and a row
\* whose average is not a number
StoredRow(t) ==
    [avg |-> Number(t), fastest |-> Number(t), slowest |-> Number(t),
     trials |-> [s |-> "floats", v |-> <<t, t>>]]

MalformedRow ==
    [avg |-> Text("n/a"), fastest |-> Number(500), slowest |-> Number(500),
     trials |-> [s |-> "floats", v |-> <<500, 500>>]]

RowSamples == {StoredRow(500), StoredRow(600), StoredRow(700), MalformedRow}

HistoryFiles ==
    {NoFile} \cup {[exists |-> TRUE, lines |-> <<HeaderLine>> \o rows]
                   : rows \in SeqsOf(RowSamples, 0, MaxRows)}

\* ------------------------------------------------------------ state
VARIABLES
    pc,          \* position of the program run
    num_trials,  \* reaction_time_test's parameter
    results,     \* reaction times recorded so far
    avg_rt, fastest, slowest, percentile,   \* the statistics
    insights,    \* the list get_interpretation returned
    history,     \* what load_history returned
    comparison,  \* the history comparison shown
    file,        \* ~/reaction_time_log.csv
    runs,        \* program runs started
    completed    \* avg_rt of every run that reached the end, in order

vars == <<pc, num_trials, results, avg_rt, fastest, slowest, percentile,
          insights, history, comparison, file, runs, completed>>

Unset == 0 - 1

NoPercentile == <<0, "">>

locals == <<num_trials, results, avg_rt, fastest, slowest, percentile,
            insights, history, comparison>>

LocalsUnset ==
    /\ avg_rt = Unset /\ fastest = Unset /\ slowest = Unset
    /\ percentile = NoPercentile /\ insights = <<>>
    /\ history = None /\ comparison = "none"

\* no history file, no run started
Init ==
    /\ pc = "idle" /\ num_trials = 0 /\ results = <<>>
    /\ LocalsUnset
    /\ file = NoFile /\ runs = 0 /\ completed = <<>>

\* a run whose trials have all completed, no history file
InitStats ==
    /\ pc = "stats" /\ results \in StatInputs /\ num_trials = Len(results)
    /\ LocalsUnset
    /\ file = NoFile /\ runs = 1 /\ completed = <<>>

\* a run whose trials have all completed, any history file
InitStore ==
    /\ pc = "stats" /\ results \in SeqsOf(Times, 1, MaxTrials)
    /\ num_trials = Len(results)
    /\ LocalsUnset
    /\ file \in HistoryFiles /\ runs = 1 /\ completed = <<>>

\* ------------------------------------------------------------ reaction_time_test
\* the program is started: results = [], the banner, the prompt
Start(n) ==
    /\ pc \in {"idle", "done", "interrupted", "crashed"}
    /\ runs < MaxSessions
    /\ runs' = runs + 1
    /\ pc' = "ready" /\ num_trials' = n /\ results' = <<>>
    /\ avg_rt' = Unset /\ fastest' = Unset /\ slowest' = Unset
    /\ percentile' = NoPercentile /\ insights' = <<>>
    /\ history' = None /\ comparison' = "none"
    /\ UNCHANGED <<file, completed>>

\* input("Press Enter when you're ready to start...") returns
Ready ==
    /\ pc = "ready"
    /\ pc' = "waiting"
    /\ UNCHANGED <<locals, file, runs, completed>>

\* time.sleep(random.uniform(2, 5)) returns; GO is shown
Sleep ==
    /\ pc = "waiting"
    /\ pc' = "go"
    /\ UNCHANGED <<locals, file, runs, completed>>

\* input() returns after reaction_time ms
KeyPress(reaction_time) ==
    /\ pc = "go"
    /\ results' = Append(results, reaction_time)
    /\ pc' = IF Len(results') < num_trials THEN "waiting" ELSE "stats"
    /\ UNCHANGED <<num_trials, avg_rt, fastest, slowest, percentile, insights,
                   history, comparison, file, runs, completed>>

Interrupt_saving_partial ==
    /\ pc \in {"ready", "waiting", "go"}
    /\ pc' = "interrupted"
    /\ file' = IF results = <<>> THEN file
               ELSE save_results(file, results, FDiv(sum(results), Len(results)))
    /\ UNCHANGED <<locals, runs, completed>>

\* KeyboardInterrupt at one of the blocking calls: nothing catches it
Interrupt ==
    /\ pc \in {"ready", "waiting", "go"}
    /\ pc' = "interrupted"
    /\ UNCHANGED <<locals, file, runs, completed>>

\* calculate stats
ComputeStats ==
    /\ pc = "stats"
    /\ avg_rt' = FDiv(sum(results), Len(results))
    /\ fastest' = min(results)
    /\ slowest' = max(results)
    /\ percentile' = calculate_percentile(avg_rt')
    /\ pc' = "analysis"
    /\ UNCHANGED <<num_trials, results, insights, history, comparison, file,
                   runs, completed>>

\* psychological insights
Analyse(hour) ==
    /\ pc = "analysis"
    /\ LET r == get_interpretation(avg_rt, hour, results, hour)
       IN  /\ insights' = r.insights
           /\ pc' = IF r.raised THEN "crashed" ELSE "history"
    /\ UNCHANGED <<num_trials, results, avg_rt, fastest, slowest, percentile,
                   history, comparison, file, runs, completed>>

CompareHistory_after_save ==
    /\ pc = "history"
    /\ history' = load_history(save_results(file, results, avg_rt))
    /\ comparison' = Comparison(history', avg_rt)
    /\ pc' = "save"
    /\ UNCHANGED <<num_trials, results, avg_rt, fastest, slowest, percentile,
                   insights, file, runs, completed>>

\* compare to history
CompareHistory ==
    /\ pc = "history"
    /\ history' = load_history(file)
    /\ comparison' = Comparison(history', avg_rt)
    /\ pc' = "save"
    /\ UNCHANGED <<num_trials, results, avg_rt, fastest, slowest, percentile,
                   insights, file, runs, completed>>

\* save results, "Test complete!"
SaveStep ==
    /\ pc = "save"
    /\ file' = save_results(file, results, avg_rt)
    /\ completed' = Append(completed, avg_rt)
    /\ pc' = "done"
    /\ UNCHANGED <<locals, runs>>

Next ==
    \/ \E n \in 1..MaxTrials : Start(n)
    \/ Ready
    \/ Sleep
    \/ \E t \in Times : KeyPress(t)
    \/ Interrupt
    \/ ComputeStats
    \/ \E hour \in Hours : Analyse(hour)
    \/ CompareHistory
    \/ SaveStep

\* one run from the end of its trials on
NextRun ==
    \/ ComputeStats
    \/ \E hour \in Hours : Analyse(hour)
    \/ CompareHistory
    \/ SaveStep

Spec == Init /\ [][Next]_vars

SpecStats == InitStats /\ [][NextRun]_vars

SpecStore == InitStore /\ [][NextRun]_vars

\* ------------------------------------------------------------ properties
Has(list, x) == \E i \in 1..Len(list) : list[i] = x

Last(s) == s[Len(s)]

Front(s) == SubSeq(s, 1, Len(s) - 1)

Analysed == {"history", "save", "done"}

IsNumber(line) == line.avg.s = "float"

\* the numeric avg_rt_ms cells below the header, in file order, in tenths
StoredAverages(f) ==
    LET rows == SelectSeq(DictRows(f.lines), IsNumber)
    IN  [i \in 1..Len(rows) |-> rows[i].avg.v]

FloatsOf(tenths) == [i \in 1..Len(tenths) |-> ParseFloat(tenths[i])]

FileOf(rows) == [exists |-> TRUE, lines |-> <<HeaderLine>> \o rows]

\* C1: load_history returns the numeric averages of the file in file order,
\* rows with a non-numeric average skipped and the last value dropped, and
\* None when there is no file or fewer than 2 numeric averages; stored
\* [50.0, 60.0, 70.0] give [50.0, 60.0] and [50.0] gives None.
C1_LoadHistory ==
    pc = "save" =>
        LET stored == StoredAverages(file)
        IN  /\ (~file.exists \/ Len(stored) < 2) => history = None
            /\ (file.exists /\ Len(stored) >= 2) =>
                  /\ history.some
                  /\ Len(history.vals) = Len(stored) - 1
                  /\ \A i \in 1..Len(history.vals) :
                        history.vals[i] = ParseFloat(stored[i])
            /\ file = FileOf(<<StoredRow(500), StoredRow(600), StoredRow(700)>>)
                  => history = Some(<<Ms(50), Ms(60)>>)
            /\ file = FileOf(<<StoredRow(500)>>) => history = None

C1_Witness ==
    /\ pc = "save"
    /\ file = FileOf(<<StoredRow(500), MalformedRow, StoredRow(600)>>)
    /\ history = Some(<<Ms(50)>>)

\* C2: appending a session makes its one-decimal average the last stored
\* average, and load_history then returns every average stored before, in
\* order (None when there was none).
C2_RoundTrip ==
    [][(pc = "save" /\ pc' = "done") =>
          LET before == StoredAverages(file)
          IN  /\ StoredAverages(file') = Append(before, Format1(avg_rt))
              /\ load_history(file') =
                    IF before = <<>> THEN None ELSE Some(FloatsOf(before))]_vars

C2_Witness ==
    /\ pc = "done"
    /\ Format1(avg_rt) * Unit # 10 * avg_rt
    /\ StoredAverages(file) = <<500, 600, Format1(avg_rt)>>
    /\ \E i \in 2..Len(file.lines) : ~IsNumber(file.lines[i])
    /\ load_history(file) = Some(<<Ms(50), Ms(60)>>)

C3_Step ==
    file' # file =>
        LET kept == IF file.exists THEN file.lines ELSE <<HeaderLine>>
        IN  /\ pc = "save"
            /\ file'.exists
            /\ Len(file'.lines) = Len(kept) + 1
            /\ SubSeq(file'.lines, 1, Len(kept)) = kept
            /\ Last(file'.lines) = RecordLine(results, avg_rt)

C3_Shape ==
    /\ ~file.exists => (file.lines = <<>> /\ completed = <<>>)
    /\ file.exists =>
          /\ file.lines[1] = HeaderLine
          /\ Len(file.lines) = 1 + Len(completed)
          /\ \A i \in 2..Len(file.lines) :
                /\ file.lines[i] # HeaderLine
                /\ file.lines[i].avg = Number(Format1(completed[i - 1]))

\* C3: save_results is append-only: a call adds one record at the end and
\* leaves every existing line in place; the header is written exactly when
\* the file did not exist; so the file is one header followed by one
\* record per completed session.
C3_AppendOnly == []C3_Shape /\ [][C3_Step]_vars

C3_Witness ==
    /\ pc = "done"
    /\ Len(completed) = 2
    /\ Len(file.lines) = 3
    /\ file.lines[2] # file.lines[3]

\* C4: a session interrupted before all of its trials completed computes no
\* statistics and writes nothing: from its start to the interruption the
\* file is untouched, and the run ends in the interruption.
C4_Interrupted ==
    [][/\ pc' \in {"ready", "waiting", "go", "interrupted"} =>
             /\ file' = file
             /\ completed' = completed
             /\ LocalsUnset'
       /\ pc' = "interrupted" =>
             (pc \in {"ready", "waiting", "go"} /\ Len(results) < num_trials)
       /\ pc = "interrupted" => pc' = "ready"]_vars

C4_Witness ==
    /\ pc = "interrupted"
    /\ results # <<>>
    /\ Len(results) < num_trials
    /\ file.exists

\* the half averages as get_interpretation computes them
FirstHalfAvg(r) ==
    LET h == Len(r) \div 2 IN FDiv(sum(SubSeq(r, 1, h)), h)

SecondHalfAvg(r) ==
    LET h == Len(r) \div 2 IN FDiv(sum(SubSeq(r, h + 1, Len(r))), Len(r) - h)

\* C5 as claimed: a second half 15 ms or more faster gives the practice
\* insight, 15 ms or more slower the fatigue insight, less gives neither.
C5_Inclusive ==
    pc \in Analysed =>
        /\ Has(insights, "practice effect")
              <=> SecondHalfAvg(results) + Ms(15) <= FirstHalfAvg(results)
        /\ Has(insights, "fatigue effect")
              <=> SecondHalfAvg(results) >= FirstHalfAvg(results) + Ms(15)

\* C5: with the trials split at floor(n/2), a second-half average more than
\* 15 ms faster than the first-half average gives the practice insight,
\* more than 15 ms slower the fatigue insight, and any other difference,
\* exactly 15 ms included, gives neither; the bounds first - 15 and
\* first + 15 are float results.
C5_Strict ==
    /\ pc \in Analysed =>
          /\ Has(insights, "practice effect")
                <=> SecondHalfAvg(results) < FSub(FirstHalfAvg(results), Ms(15))
          /\ Has(insights, "fatigue effect")
                <=> SecondHalfAvg(results) > FAdd(FirstHalfAvg(results), Ms(15))
          /\ FirstHalfAvg(results) - SecondHalfAvg(results) \in {Ms(15), 0 - Ms(15)}
                => (~Has(insights, "practice effect")
                    /\ ~Has(insights, "fatigue effect"))
    /\ pc = "crashed" =>
          /\ ~Has(insights, "practice effect")
          /\ ~Has(insights, "fatigue effect")

C5_Witness ==
    /\ pc \in Analysed
    /\ Len(results) = 3
    /\ FirstHalfAvg(results) - SecondHalfAvg(results) = Ms(15)
    /\ ~Has(insights, "practice effect")

\* C6: the percentile is 99 below 180 ms, 95 from 180 to below 200, 85 from
\* 200 to below 230, 50 from 230 to below 270, 25 from 270 to below 320
\* and 10 from 320 on; a threshold itself is in the slower bucket.
C6_Percentile ==
    pc \notin {"idle", "ready", "waiting", "go", "interrupted", "stats"} =>
        /\ avg_rt < Ms(180) <=> percentile = <<99, "Exceptional">>
        /\ (Ms(180) <= avg_rt /\ avg_rt < Ms(200)) <=> percentile = <<95, "Excellent">>
        /\ (Ms(200) <= avg_rt /\ avg_rt < Ms(230)) <=> percentile = <<85, "Above average">>
        /\ (Ms(230) <= avg_rt /\ avg_rt < Ms(270)) <=> percentile = <<50, "Average">>
        /\ (Ms(270) <= avg_rt /\ avg_rt < Ms(320)) <=> percentile = <<25, "Below average">>
        /\ Ms(320) <= avg_rt <=> percentile = <<10, "Slow">>
        /\ avg_rt = ParseFloat(1799) => percentile[1] = 99
        /\ avg_rt = ParseFloat(1800) => percentile[1] = 95
        /\ avg_rt = ParseFloat(1999) => percentile[1] = 95
        /\ avg_rt = ParseFloat(2000) => percentile[1] = 85

C6_Witness ==
    /\ pc = "analysis"
    /\ avg_rt = Ms(180)
    /\ percentile = <<95, "Excellent">>

VariabilityInsights == {"very consistent", "normal variability", "high variability"}

\* C7: max - min below 30 ms gives 'very consistent', from 30 to below 60
\* 'normal', 60 or more 'high'; exactly one of the three is emitted for
\* every non-empty trial sequence.
C7_Variability ==
    pc \in Analysed \cup {"crashed"} =>
        LET variability == max(results) - min(results)
            expected == IF variability < Ms(30) THEN "very consistent"
                        ELSE IF variability < Ms(60) THEN "normal variability"
                        ELSE "high variability"
        IN  /\ Has(insights, expected)
            /\ Cardinality({i \in 1..Len(insights) :
                              insights[i] \in VariabilityInsights}) = 1

\* C8: the summary satisfies fastest <= average <= slowest, and these three
\* values are the ones written to the appended record.
C8_AverageWithinRange ==
    /\ pc \in Analysed \cup {"analysis", "crashed"} =>
          (fastest <= avg_rt /\ avg_rt <= slowest)
    /\ pc = "done" =>
          /\ Last(file.lines).avg = Number(Format1(avg_rt))
          /\ Last(file.lines).fastest = Number(Format1(fastest))
          /\ Last(file.lines).slowest = Number(Format1(slowest))

\* C9: for every num_trials >= 1 a session whose trials all completed runs
\* to the end without error and appends one record with num_trials values.
C9_CompletesForEveryCount ==
    /\ pc # "crashed"
    /\ pc = "done" => Len(Last(file.lines).trials.v) = num_trials

====
